---------------------------- MODULE Spec2Model ----------------------------
(***************************************************************************)
(* A model of the ingestion and reconciliation core of bna-market:         *)
(*   - retry_with_backoff            (bna_market/utils/retry.py)           *)
(*   - fetch_zillow_listings         (pipelines/zillow_base.py)            *)
(*   - validate_zillow_dataframe     (utils/validators.py)                 *)
(*   - fetch_rental_properties       (bna_market/pipelines/rental.py)      *)
(*   - ETLService.update_*_table     (src/bna_market/services/             *)
(*                                    etl_service.py, the SQLite           *)
(*                                    generation that reads, merges and    *)
(*                                    replaces each table)                 *)
(*   - fetch_fred_metrics            (bna_market/pipelines/fred_metrics.py)*)
(*   - the Persistence Gateway       (bna_market/utils/database.py)        *)
(*   - run_full_refresh of the Supabase service                            *)
(*                                   (bna_market/services/etl_service.py)  *)
(* Nine specifications share the module: SpecRetry, SpecPages,             *)
(* SpecValidator, SpecNormalizer, SpecMetrics, SpecReconcile, SpecGateway, *)
(* SpecOrchestrator and Spec.                                              *)
(* The variables of the others stay at their idle values in each of them.  *)
(***************************************************************************)
EXTENDS Integers, Sequences, FiniteSets, TLC

VARIABLES
    \* ---- retry_with_backoff.wrapper
    max_retries,        \* decorator argument
    base_delay,         \* decorator argument
    max_delay,          \* decorator argument
    exponential_base,   \* decorator argument
    attempt,            \* the loop variable of the wrapper
    trace,              \* what the wrapper did: calls of func and sleeps
    retry_pc,           \* "idle" | "call" | "returned" | "raised"
    retry_out,          \* what the wrapper returned or raised
    \* ---- fetch_zillow_listings
    max_pages,          \* argument: the page cap
    page,               \* the loop variable
    requested,          \* the page numbers asked of fetch_single_page, in order
    responses,          \* what each of those requests gave
    all_properties,     \* the records accumulated so far
    pages_out,          \* what fetch_zillow_listings returned: [raised, df]
    pages_pc,           \* "idle" | "loop" | "done"
    \* ---- fetch_fred_metrics, one series at a time
    api_key,            \* whether FRED_API_KEY is set
    series_list,        \* the number of configured series: they are 1..series_list
    attempted,          \* the series requested so far, in order
    outcomes,           \* what each request gave
    all_data,           \* the rows of the series fetched, one entry per series
    failed_series,      \* the metric names of the series that failed
    summary_log,        \* "none" | "warning" | "critical": the log after the loop
    metrics_out,        \* what fetch_fred_metrics returned: [raised, df]
    metrics_pc,         \* "idle" | "start" | "loop" | "done"
    \* ---- the Reconciler, applied twice to the same fresh batch
    rc_table,           \* the table reconciled
    previous_df,        \* what read_table_safely gave
    incoming_df,           \* what the fetch gave
    merged_df,          \* the merge of the two
    written_df,         \* what went to the table
    again_df,           \* what goes to the table when the same batch comes again
    rc_pc,              \* "idle" | "start" | "once" | "twice"
    \* ---- one call of the Persistence Gateway
    gw_call,            \* the call: [op, table_name, df_empty, conn_given, configured]
    gw_events,          \* what was done to the database, in order
    gw_error,           \* the error raised inside the transaction scope, "none" if none
    gw_scope,           \* how the scope of get_db_connection ended for its caller
    gw_out,             \* how the call ended: [kind, error]
    gw_pc,              \* the position in the call
    \* ---- ETLService.run_full_refresh of the Supabase service, one run
    env,                \* which credentials are set: [rapid_api_key, fred_api_key, supabase]
    orch_pc,            \* "idle" | "validating" | a pipeline | "completed" | "failed" | "exited"
    orch_log,           \* the invocations, requests, writes and returns, in order
    orch_results,       \* results, as far as filled
    orch_faults,        \* the classes of the faults the run has met
    \* ---- ETLService.run_full_refresh over the database
    store,              \* the database: for each table, whether it exists, its columns, its rows
    etl_pc,             \* "idle" | "for_sale" | "rentals" | "fred_metrics" | "completed" | "failed" | "exited"
    results,            \* the row counts the run has collected
    runs,               \* the runs started so far
    last_step,          \* the last table update: the table, how it ended, the table before it
    \* ---- validate_zillow_dataframe, one call
    val_in,             \* the frame passed in
    val_out,            \* [raised, df]: the frame returned
    val_pc,             \* "idle" | "called" | "returned" | "raised"
    \* ---- fetch_rental_properties and the update of the rentals table, one fetch
    norm_props,         \* the records the pages gave
    norm_validated,     \* the frame fetch_zillow_listings returned
    norm_out,           \* the frame fetch_rental_properties returned
    norm_handed,        \* the rows update_rentals_table merges into the table
    norm_stages,        \* the stages the rows went through, in order
    norm_pc             \* "idle" | "fetched" | "validated" | "normalized" | "handed" |
                        \* "skipped" | "validation_raised" | "normalize_raised"

retryVars == <<max_retries, base_delay, max_delay, exponential_base,
               attempt, trace, retry_pc, retry_out>>

pageVars == <<max_pages, page, requested, responses, all_properties, pages_out, pages_pc>>

metricVars ==
    <<api_key, series_list, attempted, outcomes, all_data, failed_series,
      summary_log, metrics_out, metrics_pc>>

rcVars == <<rc_table, previous_df, incoming_df, merged_df, written_df, again_df, rc_pc>>

gwVars == <<gw_call, gw_events, gw_error, gw_scope, gw_out, gw_pc>>

orchVars == <<env, orch_pc, orch_log, orch_results, orch_faults>>

etlVars == <<store, etl_pc, results, runs, last_step>>

valVars == <<val_in, val_out, val_pc>>

normVars == <<norm_props, norm_validated, norm_out, norm_handed, norm_stages, norm_pc>>

vars == <<retryVars, pageVars, metricVars, rcVars, gwVars, orchVars, etlVars, valVars, normVars>>

Min(a, b) == IF a <= b THEN a ELSE b

RECURSIVE Pow(_, _)
Pow(b, n) == IF n = 0 THEN 1 ELSE b * Pow(b, n - 1)

(***************************************************************************)
(*                 Records and frames of listings                          *)
(***************************************************************************)

\* A cell that holds no value (None / NaN / SQL NULL) and a key that the API
\* record does not have at all.  Identifiers are 1, 2, ...; prices are >= 0.
Null == 0
Absent == -1
NullPrice == -1
AbsentPrice == -2

\* `df = df[df["price"] < 100_000_000]`
PRICE_CEILING == 100000000

\* Bounds on the listing identifiers and on the units of one listing.
MaxZpid == 2
MaxUnits == 2

\* The `units` field of a listing: no value, a native list of n units, or the
\* JSON text json.dumps makes of such a list.
NoUnits == [tag |-> "null", n |-> 0]
UnitList(n) == [tag |-> "list", n |-> n]
UnitJson(n) == [tag |-> "json", n |-> n]

\* Other texts the field may hold: the Python literal of a list of n units; the
\* JSON text of such a list that spells a boolean true or false; the literal of
\* a value that is no list; a text that is neither a literal nor JSON; the
\* literal of a set or dict with an unhashable member, such as "{[1]: 2}".
UnitLiteral(n) == [tag |-> "literal", n |-> n]
UnitJsonBool(n) == [tag |-> "json_bool", n |-> n]
UnitScalar == [tag |-> "scalar", n |-> 0]
UnitText == [tag |-> "text", n |-> 0]
UnitUnhashable == [tag |-> "unhashable", n |-> 0]

\* One property object of the API's "props" array.
Prop(z, p, u) == [zpid |-> z, price |-> p, units |-> u, unit |-> 0]

\* The empty DataFrame, pd.DataFrame(): no columns, no rows.
EmptyFrame == [cols |-> {}, rows |-> <<>>]

IsEmpty(df) == df.rows = <<>>

\* pd.DataFrame(all_properties): the columns are the keys some record has; a
\* record without a key has no value in that column.
FrameCell(r) ==
    [zpid |-> IF r.zpid = Absent THEN Null ELSE r.zpid,
     price |-> IF r.price = AbsentPrice THEN NullPrice ELSE r.price,
     units |-> r.units,
     unit |-> 0]

FrameOf(props) ==
    [cols |-> {c \in {"zpid", "price", "units"} :
                 \E i \in 1..Len(props) :
                     \/ c = "zpid" /\ props[i].zpid # Absent
                     \/ c = "price" /\ props[i].price # AbsentPrice
                     \/ c = "units" /\ props[i].units.tag # "null"},
     rows |-> [i \in 1..Len(props) |-> FrameCell(props[i])]]

(***************************************************************************)
(*                       fetch_zillow_listings                             *)
(***************************************************************************)

\* Bounds on the page cap and on the records of one page.
MaxPages == 3
MaxPageRecords == 2

\* The records a page may hold.
PageProps == {Prop(z, 300000, NoUnits) : z \in {Absent} \cup 1..MaxZpid}

RECURSIVE SeqsUpTo(_, _)
SeqsUpTo(S, n) ==
    IF n = 0 THEN {<<>>}
    ELSE LET shorter == SeqsUpTo(S, n - 1)
         IN  shorter \cup {Append(q, x) : q \in {t \in shorter : Len(t) = n - 1}, x \in S}

\* What fetch_single_page may give for one page: a response whose "props" array
\* holds records, is empty or is absent, or an error (a request error once the
\* retries are used up, a decode error, any other error).
PageResponses ==
    {[kind |-> "props", props |-> ps] : ps \in SeqsUpTo(PageProps, MaxPageRecords) \ {<<>>}}
    \cup {[kind |-> k, props |-> <<>>] :
            k \in {"empty", "absent", "request_error", "decode_error", "other_error"}}

IsError(resp) == resp.kind \in {"request_error", "decode_error", "other_error"}

\* `properties = data.get("props", [])` and `if not properties: break`
NoPropertiesNever(resp) == FALSE
NoProperties(resp) == resp.props = <<>>

\* `for page in range(1, max_pages + 1)`
PageInRange(pg) == pg <= max_pages

(***************************************************************************)
(*        validate_zillow_dataframe, parse_units and explode               *)
(***************************************************************************)

\* The three tables of the store.
Tables == {"BNA_FORSALE", "BNA_RENTALS", "BNA_FRED_METRICS"}

\* The unique key of a table's rows: zpid for the listings, (date, series_id)
\* for the metric observations.
KeyCols(tbl) == IF tbl = "BNA_FRED_METRICS" THEN {"date", "series_id"} ELSE {"zpid"}
KeyOf(tbl, r) == IF tbl = "BNA_FRED_METRICS" THEN <<r.date, r.series_id>> ELSE <<r.zpid>>

RECURSIVE Pick(_, _, _)
Pick(rows, keep, i) ==
    IF i > Len(rows) THEN <<>>
    ELSE (IF i \in keep THEN <<rows[i]>> ELSE <<>>) \o Pick(rows, keep, i + 1)

\* drop_duplicates(subset=<key>, keep="last"): a row stays when no later row
\* has its key; rows without a value in the key compare equal.
DropDuplicatesFirst(tbl, rows) ==
    Pick(rows, {i \in 1..Len(rows) :
                  \A j \in 1..(i - 1) : KeyOf(tbl, rows[j]) # KeyOf(tbl, rows[i])}, 1)
DropDuplicates(tbl, rows) ==
    Pick(rows, {i \in 1..Len(rows) :
                  \A j \in (i + 1)..Len(rows) : KeyOf(tbl, rows[j]) # KeyOf(tbl, rows[i])}, 1)

\* validate_zillow_dataframe: the DataValidationError when the zpid column is
\* missing, else duplicates, null identifiers and prices out of range dropped,
\* in that order.
HasZpid(r) == r.zpid # Null
PriceInRange(r) == r.price > 0 /\ r.price < PRICE_CEILING

\* `if "zpid" not in df.columns: raise DataValidationError(...)`
MissingColumnNever(df) == FALSE
MissingColumn(df) == "zpid" \notin df.cols

Validate(df) ==
    IF IsEmpty(df) THEN [raised |-> FALSE, df |-> df]
    ELSE IF MissingColumn(df) THEN [raised |-> TRUE, df |-> EmptyFrame]
    ELSE LET deduped == DropDuplicates("BNA_FORSALE", df.rows)
             notnull == SelectSeq(deduped, HasZpid)
             priced == IF "price" \in df.cols
                       THEN SelectSeq(notnull, PriceInRange)
                       ELSE notnull
         IN  [raised |-> FALSE, df |-> [cols |-> df.cols, rows |-> priced]]

\* ast.literal_eval on the text of the field: a list, another value, a
\* ValueError or SyntaxError, or the TypeError of an unhashable member.
LiteralEval(u) ==
    IF u.tag \in {"literal", "json"} THEN "list"
    ELSE IF u.tag = "scalar" THEN "other"
    ELSE IF u.tag = "unhashable" THEN "type_error"
    ELSE "value_error"

\* json.loads on the text, True/False respelled and ' replaced by ".
JsonLoads(u) == IF u.tag \in {"json", "json_bool"} THEN "list" ELSE "value_error"

IsStr(u) == u.tag \notin {"null", "list"}

\* `except (ValueError, SyntaxError): pass` around ast.literal_eval
LiteralEvalEscapesNever(u) == FALSE
LiteralEvalEscapes(u) == LiteralEval(u) = "type_error"

\* parse_units raises what the handlers around its two decoders do not catch.
ParseUnitsRaises(u) == IsStr(u) /\ LiteralEvalEscapes(u)

\* parse_units: the number of units the field decodes to, trying the native
\* list, then ast.literal_eval, then json.loads; 0 when it decodes to no list
\* (the row then stays single, with no unit fields).
ParseUnits(u) ==
    IF u.tag = "list" THEN u.n
    ELSE IF ~IsStr(u) THEN 0
    ELSE IF LiteralEval(u) = "list" THEN u.n
    ELSE IF LiteralEval(u) = "other" THEN 0
    ELSE IF JsonLoads(u) = "list" THEN u.n
    ELSE 0

\* df.explode("parsed") and the "_unit" columns: one row per unit, each with all
\* the fields of the listing.
ExplodeRowFirstUnit(r) ==
    IF ParseUnits(r.units) >= 1 THEN <<[r EXCEPT !.unit = 1]>> ELSE <<r>>

ExplodeRow(r) ==
    IF ParseUnits(r.units) >= 1
    THEN [i \in 1..ParseUnits(r.units) |-> [r EXCEPT !.unit = i]]
    ELSE <<r>>

RECURSIVE ExplodeRows(_)
ExplodeRows(rows) ==
    IF rows = <<>> THEN <<>> ELSE ExplodeRow(rows[1]) \o ExplodeRows(Tail(rows))

Explode(df) ==
    IF ~IsEmpty(df) /\ "units" \in df.cols
    THEN [cols |-> df.cols \cup {"unit"}, rows |-> ExplodeRows(df.rows)]
    ELSE df

\* df["units"].apply(parse_units) raises when parse_units does for some row.
ExplodeRaises(df) ==
    /\ ~IsEmpty(df)
    /\ "units" \in df.cols
    /\ \E i \in 1..Len(df.rows) : ParseUnitsRaises(df.rows[i].units)

\* Bound on the records one listing fetch returns.
MaxBatch == 2

\* The records the listing API may return: with or without an identifier, with
\* a price in or out of range.
ListingProps(unitValues) ==
    {Prop(z, p, u) : z \in {Absent, Null} \cup 1..MaxZpid,
                     p \in {0, 300000, 310000},
                     u \in unitValues}

\* What fetch_zillow_listings hands to the validator: the records of all the
\* pages fetched.
SaleBatches == SeqsUpTo(ListingProps({NoUnits}), MaxBatch)
RentalBatches == SeqsUpTo(ListingProps({NoUnits, UnitList(MaxUnits)}), MaxBatch)

\* Bound on the records one listing fetch returns within a run of the service.
MaxRunBatch == 1

\* The same within a run of run_full_refresh.
RunSaleBatches == SeqsUpTo(ListingProps({NoUnits}), MaxRunBatch)
RunRentalBatches == SeqsUpTo(ListingProps({NoUnits, UnitList(MaxUnits)}), MaxRunBatch)

\* fetch_for_sale_properties and fetch_rental_properties on the records props.
FetchForSale(props) == Validate(FrameOf(props))
FetchRentals(props) ==
    LET validated == Validate(FrameOf(props))
    IN  IF validated.raised \/ ExplodeRaises(validated.df)
        THEN [raised |-> TRUE, df |-> EmptyFrame]
        ELSE [raised |-> FALSE, df |-> Explode(validated.df)]

(***************************************************************************)
(*                 The page loop of fetch_zillow_listings                  *)
(***************************************************************************)

\* What the function has returned: nothing while the loop runs.
NoBatch == [raised |-> FALSE, df |-> EmptyFrame]

InitPagesIdle ==
    /\ max_pages = 0
    /\ page = 0
    /\ requested = <<>>
    /\ responses = <<>>
    /\ all_properties = <<>>
    /\ pages_out = NoBatch
    /\ pages_pc = "idle"

InitPages ==
    /\ max_pages \in 1..MaxPages
    /\ page = 1
    /\ requested = <<>>
    /\ responses = <<>>
    /\ all_properties = <<>>
    /\ pages_out = NoBatch
    /\ pages_pc = "loop"

\* After the loop: `if all_properties:` the frame of the records goes through
\* validate_zillow_dataframe and is returned (or the validator's error leaves
\* the function); otherwise pd.DataFrame() is returned.
ReturnBatch(props) ==
    IF props # <<>> THEN Validate(FrameOf(props)) ELSE NoBatch

\* One iteration of the loop: page `page` is requested and answered by resp;
\* the iteration that leaves the loop also returns.
FetchPage(resp) ==
    /\ pages_pc = "loop"
    /\ PageInRange(page)
    /\ requested' = Append(requested, page)
    /\ responses' = Append(responses, resp)
    /\ IF IsError(resp) \/ NoProperties(resp)
       THEN /\ all_properties' = all_properties
            /\ page' = page
            /\ pages_pc' = "done"
            /\ pages_out' = ReturnBatch(all_properties)
       ELSE /\ all_properties' = all_properties \o resp.props
            /\ page' = page + 1
            /\ pages_pc' = IF PageInRange(page + 1) THEN "loop" ELSE "done"
            /\ pages_out' = IF PageInRange(page + 1) THEN pages_out
                            ELSE ReturnBatch(all_properties \o resp.props)
    /\ UNCHANGED max_pages

\* The page holds records: they are appended and the loop goes on.
PageWithProps ==
    /\ \E resp \in PageResponses : resp.kind = "props" /\ FetchPage(resp)
    /\ UNCHANGED <<retryVars, metricVars, rcVars, gwVars, orchVars, etlVars, valVars, normVars>>

\* The page's record array is empty or absent: pagination stops.
PageWithoutProps ==
    /\ \E resp \in PageResponses : resp.kind \in {"empty", "absent"} /\ FetchPage(resp)
    /\ UNCHANGED <<retryVars, metricVars, rcVars, gwVars, orchVars, etlVars, valVars, normVars>>

\* fetch_single_page raises: the loop is left.
PageFails ==
    /\ \E resp \in PageResponses : IsError(resp) /\ FetchPage(resp)
    /\ UNCHANGED <<retryVars, metricVars, rcVars, gwVars, orchVars, etlVars, valVars, normVars>>

NextPages ==
    \/ PageWithProps
    \/ PageWithoutProps
    \/ PageFails

\* C10: pages 1, 2, 3, ... are requested in order; no page is requested after
\* the first page whose record array is empty or absent, nor after max_pages
\* pages; and while neither has happened (and no request failed) the loop goes on.
C10_PaginationStops ==
    /\ \A i \in 1..Len(requested) : requested[i] = i
    /\ Len(requested) <= max_pages
    /\ Len(responses) = Len(requested)
    /\ \A i \in 1..Len(responses) :
          responses[i].kind \in {"empty", "absent"} =>
              /\ i = Len(responses)
              /\ pages_pc = "done"
    /\ Len(requested) = max_pages => pages_pc = "done"
    /\ (pages_pc = "done" /\ responses[Len(responses)].kind = "props") =>
          Len(requested) = max_pages

C10_WitnessEmpty ==
    /\ pages_pc = "done"
    /\ max_pages = 3
    /\ Len(requested) = 2
    /\ responses[1].kind = "props"
    /\ responses[2].kind = "absent"

RECURSIVE RecordsOfPages(_)
RecordsOfPages(resps) ==
    IF resps = <<>> THEN <<>>
    ELSE (IF resps[1].kind = "props" THEN resps[1].props ELSE <<>>)
         \o RecordsOfPages(Tail(resps))

\* C11: the batch the fetcher returns is the in-order concatenation of the
\* records of the pages fetched before the loop stopped; a failing page makes
\* the fetcher return the records of the pages before it, without raising.
C11_BatchIsConcatenation ==
    pages_pc = "done" =>
        /\ ~pages_out.raised
        /\ pages_out.df.rows = FrameOf(RecordsOfPages(responses)).rows

(***************************************************************************)
(*                 validate_zillow_dataframe, one call                     *)
(***************************************************************************)

\* Bound on the rows of the frame passed to the validator.
MaxValidated == 2

\* The records a frame is made of: with or without an identifier, with or
\* without a price, the price in or out of range.
ValidatorPrices == {AbsentPrice, NullPrice, 0, 300000, 310000, PRICE_CEILING}
ValidatorProps ==
    {Prop(z, p, NoUnits) : z \in {Absent, Null} \cup 1..MaxZpid, p \in ValidatorPrices}
ValidatorFrames == {FrameOf(b) : b \in SeqsUpTo(ValidatorProps, MaxValidated)}

InitValidatorIdle ==
    /\ val_in = EmptyFrame
    /\ val_out = NoBatch
    /\ val_pc = "idle"

InitValidator ==
    /\ val_in \in ValidatorFrames
    /\ val_out = NoBatch
    /\ val_pc = "called"

ValidatorReturns ==
    /\ val_pc = "called"
    /\ ~Validate(val_in).raised
    /\ val_out' = Validate(val_in)
    /\ val_pc' = "returned"
    /\ UNCHANGED val_in
    /\ UNCHANGED <<retryVars, pageVars, metricVars, rcVars, gwVars, orchVars, etlVars, normVars>>

ValidatorRaises ==
    /\ val_pc = "called"
    /\ Validate(val_in).raised
    /\ val_out' = Validate(val_in)
    /\ val_pc' = "raised"
    /\ UNCHANGED val_in
    /\ UNCHANGED <<retryVars, pageVars, metricVars, rcVars, gwVars, orchVars, etlVars, normVars>>

NextValidator ==
    \/ ValidatorReturns
    \/ ValidatorRaises

\* A record of the batch passes: its identifier is not null, its price is
\* present and in range.
Passes(r) == r.zpid # Null /\ r.price > 0 /\ r.price < PRICE_CEILING
PassesOf(z) == {i \in 1..Len(val_in.rows) : val_in.rows[i].zpid = z /\ Passes(val_in.rows[i])}
LastOf(S) == CHOOSE i \in S : \A j \in S : j <= i
OutWithZpid(z) == {k \in 1..Len(val_out.df.rows) : val_out.df.rows[k].zpid = z}

\* C23: in the batch the validator returns, every record has a non-null
\* identifier and a price that is present, above 0 and below 100,000,000, and
\* no two records share an identifier; every record of the input that is not
\* returned fails one of these or is an earlier duplicate of a returned one.
C23_OutputValidAndDropsJustified ==
    val_pc = "returned" =>
        /\ \A k \in 1..Len(val_out.df.rows) :
              /\ Passes(val_out.df.rows[k])
              /\ Cardinality(OutWithZpid(val_out.df.rows[k].zpid)) = 1
        /\ \A i \in 1..Len(val_in.rows) :
              \/ ~Passes(val_in.rows[i])
              \/ \E j \in i..Len(val_in.rows), k \in 1..Len(val_out.df.rows) :
                    /\ val_in.rows[j].zpid = val_in.rows[i].zpid
                    /\ val_out.df.rows[k] = val_in.rows[j]

\* C24: among the records that pass the field, null and price tests the
\* validator returns exactly one per identifier, the last one of the input.
C24_LastPassingKept ==
    val_pc = "returned" =>
        \A z \in 1..MaxZpid :
            IF PassesOf(z) = {}
            THEN OutWithZpid(z) = {}
            ELSE /\ Cardinality(OutWithZpid(z)) = 1
                 /\ \A k \in OutWithZpid(z) :
                       val_out.df.rows[k] = val_in.rows[LastOf(PassesOf(z))]

MaxNormalized == 2

\* What the units field of a rental record may hold.
UnitValues ==
    {NoUnits, UnitList(1), UnitList(MaxUnits), UnitLiteral(MaxUnits), UnitJsonBool(1),
     UnitScalar, UnitText, UnitUnhashable}

NormalizerProps ==
    {Prop(z, p, u) : z \in {Absent, Null} \cup 1..MaxZpid, p \in {0, 300000}, u \in UnitValues}
NormalizerBatches == SeqsUpTo(NormalizerProps, MaxNormalized)

InitNormalizerIdle ==
    /\ norm_props = <<>>
    /\ norm_validated = EmptyFrame
    /\ norm_out = EmptyFrame
    /\ norm_handed = <<>>
    /\ norm_stages = <<>>
    /\ norm_pc = "idle"

InitNormalizer ==
    /\ norm_props \in NormalizerBatches
    /\ norm_validated = EmptyFrame
    /\ norm_out = EmptyFrame
    /\ norm_handed = <<>>
    /\ norm_stages = <<"fetcher">>
    /\ norm_pc = "fetched"

\* The end of fetch_zillow_listings: the records collected are validated.
ValidateFetched ==
    /\ norm_pc = "fetched"
    /\ norm_validated' = Validate(FrameOf(norm_props)).df
    /\ norm_stages' = IF norm_props = <<>> THEN norm_stages ELSE Append(norm_stages, "validator")
    /\ norm_pc' = IF Validate(FrameOf(norm_props)).raised THEN "validation_raised" ELSE "validated"
    /\ UNCHANGED <<norm_props, norm_out, norm_handed>>
    /\ UNCHANGED <<retryVars, pageVars, metricVars, rcVars, gwVars, orchVars, etlVars, valVars>>

\* fetch_rental_properties after the fetch: the units are parsed, the rows
\* exploded.
NormalizeUnits ==
    /\ norm_pc = "validated"
    /\ norm_stages' = IF ~IsEmpty(norm_validated) /\ "units" \in norm_validated.cols
                      THEN Append(norm_stages, "normalizer") ELSE norm_stages
    /\ IF ExplodeRaises(norm_validated)
       THEN /\ norm_pc' = "normalize_raised"
            /\ UNCHANGED norm_out
       ELSE /\ norm_pc' = "normalized"
            /\ norm_out' = Explode(norm_validated)
    /\ UNCHANGED <<norm_props, norm_validated, norm_handed>>
    /\ UNCHANGED <<retryVars, pageVars, metricVars, rcVars, gwVars, orchVars, etlVars, valVars>>

\* update_rentals_table: an empty frame is skipped, any other is merged into
\* the table as it came from fetch_rental_properties.
HandToReconciler ==
    /\ norm_pc = "normalized"
    /\ IF IsEmpty(norm_out)
       THEN /\ norm_pc' = "skipped"
            /\ UNCHANGED <<norm_handed, norm_stages>>
       ELSE /\ norm_pc' = "handed"
            /\ norm_handed' = norm_out.rows
            /\ norm_stages' = Append(norm_stages, "reconciler")
    /\ UNCHANGED <<norm_props, norm_validated, norm_out>>
    /\ UNCHANGED <<retryVars, pageVars, metricVars, rcVars, gwVars, orchVars, etlVars, valVars>>

NextNormalizer ==
    \/ ValidateFetched
    \/ NormalizeUnits
    \/ HandToReconciler

\* The units a field holds, when it holds a list in one of the three forms.
UnitsIn(u) == IF u.tag \in {"list", "literal", "json", "json_bool"} THEN u.n ELSE 0
RowsOfListing(z) ==
    SelectSeq(norm_out.rows, LAMBDA r : r.zpid = z)

\* C26: for a record with n >= 1 units the normalizer gives exactly n rows, in
\* the order of the units, each with all the fields of the record and the
\* fields of one unit.
C26_OneRowPerUnit ==
    norm_pc \in {"normalized", "handed", "skipped"} =>
        \A i \in 1..Len(norm_validated.rows) :
            LET r == norm_validated.rows[i]
            IN  UnitsIn(r.units) >= 1 =>
                   /\ "unit" \in norm_out.cols
                   /\ RowsOfListing(r.zpid) = [k \in 1..UnitsIn(r.units) |-> [r EXCEPT !.unit = k]]

C26_Witness ==
    /\ norm_pc = "handed"
    /\ Len(norm_validated.rows) = 2
    /\ norm_validated.rows[1].units = UnitLiteral(MaxUnits)
    /\ norm_validated.rows[2].units = UnitJsonBool(1)
    /\ Len(norm_out.rows) = MaxUnits + 1

\* C27: the normalizer never raises and never drops a record for what its
\* units field holds: a record whose units decode to no list is in the result
\* once, as it was.
C27_UnitsNeverFail ==
    /\ norm_pc # "normalize_raised"
    /\ norm_pc \in {"normalized", "handed", "skipped"} =>
          \A i \in 1..Len(norm_validated.rows) :
              LET r == norm_validated.rows[i]
              IN  UnitsIn(r.units) = 0 => RowsOfListing(r.zpid) = <<r>>

\* C28: the rows handed to the Reconciler went through the Normalizer and
\* then through the Validator: the validator would return them unchanged.
C28_ValidatedAfterNormalized ==
    norm_pc = "handed" =>
        /\ \A a, b \in 1..Len(norm_stages) :
              (norm_stages[a] = "normalizer" /\ norm_stages[b] = "validator") => a < b
        /\ Validate([cols |-> norm_out.cols, rows |-> norm_handed]).df.rows = norm_handed

(***************************************************************************)
(*                        fetch_fred_metrics                               *)
(***************************************************************************)

\* Bounds on the configured series and on the dates of the lookback window.
MaxSeries == 2
MaxDate == 2

MetricCols == {"date", "metric_name", "series_id", "value"}
MetricRow(d, s, v) == [date |-> d, metric_name |-> s, series_id |-> s, value |-> v]

\* What one series gives: a failure, or the observations of dates 1..n, all
\* with value v (v = Null: the observation has no value).
MetricValues == {Null, 1, 2}

SeriesOutcomes ==
    {[ok |-> FALSE, n |-> 0, v |-> 0]}
    \cup {[ok |-> TRUE, n |-> n, v |-> v] : n \in 1..MaxDate, v \in MetricValues}

SeriesRows(s, o) == IF o.ok THEN [d \in 1..o.n |-> MetricRow(d, s, o.v)] ELSE <<>>

RECURSIVE ConcatSeries(_, _)
ConcatSeries(outs, s) ==
    IF s > MaxSeries THEN <<>> ELSE SeriesRows(s, outs[s]) \o ConcatSeries(outs, s + 1)

HasValue(r) == r.date # Null /\ r.value # Null

\* fetch_fred_metrics when series s ends as outs[s]: pd.concat(all_data), then
\* validate_fred_dataframe drops the rows without a date or a value.
FetchFred(outs) ==
    [cols |-> MetricCols, rows |-> SelectSeq(ConcatSeries(outs, 1), HasValue)]

\* Bound on the number of configured series of one fetch.
MaxConfigured == 4

InitMetricsIdle ==
    /\ api_key = FALSE
    /\ series_list = 0
    /\ attempted = <<>>
    /\ outcomes = <<>>
    /\ all_data = <<>>
    /\ failed_series = <<>>
    /\ summary_log = "none"
    /\ metrics_out = NoBatch
    /\ metrics_pc = "idle"

InitMetrics ==
    /\ api_key \in BOOLEAN
    /\ series_list \in 1..MaxConfigured
    /\ attempted = <<>>
    /\ outcomes = <<>>
    /\ all_data = <<>>
    /\ failed_series = <<>>
    /\ summary_log = "none"
    /\ metrics_out = NoBatch
    /\ metrics_pc = "start"

\* `if not api_key: raise ValueError`
KeyMissingNever(key) == FALSE
KeyMissing(key) == ~key

\* `if failure_count > total_count * 0.5` / `elif failure_count > 0`
SummaryLogAtHalf(failure_count, total_count) ==
    IF 2 * failure_count >= total_count /\ failure_count > 0 THEN "critical"
    ELSE IF failure_count > 0 THEN "warning"
    ELSE "none"

SummaryLog(failure_count, total_count) ==
    IF 2 * failure_count > total_count THEN "critical"
    ELSE IF failure_count > 0 THEN "warning"
    ELSE "none"

RECURSIVE Flatten(_)
Flatten(frames) == IF frames = <<>> THEN <<>> ELSE frames[1] \o Flatten(Tail(frames))

\* The end of the function: pd.concat(all_data) through validate_fred_dataframe,
\* or the empty frame with the four columns.
ReturnMetrics(data) ==
    IF data # <<>>
    THEN [raised |-> FALSE,
          df |-> [cols |-> MetricCols, rows |-> SelectSeq(Flatten(data), HasValue)]]
    ELSE [raised |-> FALSE, df |-> [cols |-> MetricCols, rows |-> <<>>]]

\* The credential check that opens the function.
CheckKey ==
    /\ metrics_pc = "start"
    /\ IF KeyMissing(api_key)
       THEN /\ metrics_out' = [raised |-> TRUE, df |-> EmptyFrame]
            /\ metrics_pc' = "done"
       ELSE /\ metrics_out' = metrics_out
            /\ metrics_pc' = "loop"
    /\ UNCHANGED <<api_key, series_list, attempted, outcomes, all_data, failed_series, summary_log>>
    /\ UNCHANGED <<retryVars, pageVars, rcVars, gwVars, orchVars, etlVars, valVars, normVars>>

\* `except Exception: ... continue`: a series that ends as o never ends the loop.
LeavesLoopOnFailure(o) == ~o.ok
LeavesLoop(o) == FALSE

\* One iteration of the loop over series_list: the next series is requested and
\* ends as o; the last iteration goes on to the summary log and the return.
FetchSeries(o) ==
    LET s == Len(attempted) + 1
        data == IF o.ok THEN Append(all_data, SeriesRows(s, o)) ELSE all_data
        failed == IF o.ok THEN failed_series ELSE Append(failed_series, s)
        last == s = series_list \/ LeavesLoop(o)
    IN  /\ metrics_pc = "loop"
        /\ s <= series_list
        /\ attempted' = Append(attempted, s)
        /\ outcomes' = Append(outcomes, o)
        /\ all_data' = data
        /\ failed_series' = failed
        /\ IF last
           THEN /\ summary_log' = SummaryLog(series_list - Len(data), series_list)
                /\ metrics_out' = ReturnMetrics(data)
                /\ metrics_pc' = "done"
           ELSE UNCHANGED <<summary_log, metrics_out, metrics_pc>>
        /\ UNCHANGED <<api_key, series_list>>

SeriesSucceeds ==
    /\ \E o \in SeriesOutcomes : o.ok /\ FetchSeries(o)
    /\ UNCHANGED <<retryVars, pageVars, rcVars, gwVars, orchVars, etlVars, valVars, normVars>>

SeriesFails ==
    /\ \E o \in SeriesOutcomes : ~o.ok /\ FetchSeries(o)
    /\ UNCHANGED <<retryVars, pageVars, rcVars, gwVars, orchVars, etlVars, valVars, normVars>>

NextMetrics ==
    \/ CheckKey
    \/ SeriesSucceeds
    \/ SeriesFails

IsSeriesId(i) == i > 0

RECURSIVE RowsOfSeries(_, _)
RowsOfSeries(outs, s) ==
    IF s > Len(outs) THEN <<>>
    ELSE SeriesRows(s, outs[s]) \o RowsOfSeries(outs, s + 1)

MetricsReturned == metrics_pc = "done" /\ api_key

\* C12 as stated: every configured series is attempted once, in order, whatever
\* failed before; the function does not raise; it returns all the observations
\* of exactly the series whose fetch succeeded, each with its tags.
C12_AllObservations ==
    MetricsReturned =>
        /\ attempted = [i \in 1..series_list |-> i]
        /\ ~metrics_out.raised
        /\ metrics_out.df.rows = RowsOfSeries(outcomes, 1)

\* C12 as amended: the same, the observations returned being those that have a
\* date and a value.
C12_SeriesIndependent ==
    MetricsReturned =>
        /\ attempted = [i \in 1..series_list |-> i]
        /\ ~metrics_out.raised
        /\ metrics_out.df.rows = SelectSeq(RowsOfSeries(outcomes, 1), HasValue)
        /\ \A i \in 1..Len(metrics_out.df.rows) :
              /\ metrics_out.df.rows[i].metric_name = metrics_out.df.rows[i].series_id
              /\ outcomes[metrics_out.df.rows[i].series_id].ok

C12_Witness ==
    /\ MetricsReturned
    /\ series_list = 3
    /\ ~outcomes[1].ok
    /\ outcomes[2].ok
    /\ ~outcomes[3].ok
    /\ Len(metrics_out.df.rows) = 2

FailedOf(outs) == SelectSeq([i \in 1..Len(outs) |-> IF outs[i].ok THEN 0 ELSE i], IsSeriesId)

\* C13: with f failed series of t configured, the log after the loop is
\* critical iff f/t > 0.5, a warning iff 0 < f/t <= 0.5 (exactly half is a
\* warning), and there is none iff f = 0; failed_series names the failed series.
C13_FailureSummary ==
    MetricsReturned =>
        LET f == Len(FailedOf(outcomes))
            t == series_list
        IN  /\ summary_log = "critical" <=> 2 * f > t
            /\ summary_log = "warning" <=> (f > 0 /\ 2 * f <= t)
            /\ summary_log = "none" <=> f = 0
            /\ failed_series = FailedOf(outcomes)

C13_Witness ==
    /\ MetricsReturned
    /\ series_list = 4
    /\ Len(failed_series) = 2
    /\ summary_log = "warning"

\* C14: the function raises only when the credential is absent, and checks it
\* once before any series: absent, it raises and no series is requested;
\* present, it never raises.
C14_RaisesOnlyWithoutKey ==
    /\ ~api_key => attempted = <<>>
    /\ metrics_pc = "done" => (metrics_out.raised <=> ~api_key)
    /\ metrics_pc = "loop" => api_key

C14_Witness ==
    /\ metrics_pc = "done"
    /\ ~api_key
    /\ metrics_out.raised
    /\ attempted = <<>>

(***************************************************************************)
(*                  The Reconciler and the store                           *)
(***************************************************************************)

\* pd.concat([existing_df, df]): the rows of both, the columns of either.
Concat(a, b) == [cols |-> a.cols \cup b.cols, rows |-> a.rows \o b.rows]

\* The merge of update_sales_table and update_rentals_table.
ReconcileListing(tbl, existing_df, df) ==
    IF ~IsEmpty(existing_df) /\ "zpid" \in df.cols /\ "zpid" \in existing_df.cols
    THEN [cols |-> Concat(existing_df, df).cols,
          rows |-> DropDuplicates(tbl, Concat(existing_df, df).rows)]
    ELSE df

\* The merge of update_fred_metrics_table.
ReconcileMetrics(tbl, existing_df, df) ==
    IF ~IsEmpty(existing_df)
    THEN [cols |-> Concat(existing_df, df).cols,
          rows |-> DropDuplicates(tbl, Concat(existing_df, df).rows)]
    ELSE df

Reconcile(tbl, existing_df, df) ==
    IF tbl = "BNA_FRED_METRICS"
    THEN ReconcileMetrics(tbl, existing_df, df)
    ELSE ReconcileListing(tbl, existing_df, df)

\* df.map(lambda x: json.dumps(x) if isinstance(x, (dict, list)) else x): a
\* list becomes its JSON text, everything else stays.  The metrics are written
\* as they are.
SerializeRow(r) == [r EXCEPT !.units = IF @.tag = "list" THEN UnitJson(@.n) ELSE @]

Serialize(tbl, df) ==
    IF tbl = "BNA_FRED_METRICS" THEN df
    ELSE [cols |-> df.cols, rows |-> [i \in 1..Len(df.rows) |-> SerializeRow(df.rows[i])]]

\* The frames a fetch may hand to the Reconciler for a table: the update
\* functions return before the merge when the fetch raised or gave no rows.
FreshFrames(tbl) ==
    IF tbl = "BNA_FORSALE"
    THEN {FetchForSale(b).df : b \in {c \in SaleBatches :
             ~FetchForSale(c).raised /\ ~IsEmpty(FetchForSale(c).df)}}
    ELSE IF tbl = "BNA_RENTALS"
    THEN {FetchRentals(b).df : b \in {c \in RentalBatches :
             ~FetchRentals(c).raised /\ ~IsEmpty(FetchRentals(c).df)}}
    ELSE {FetchFred(outs) : outs \in {o \in [1..MaxSeries -> SeriesOutcomes] :
             ~IsEmpty(FetchFred(o))}}

\* A table that was written without the key columns.
WithoutKeyRow(tbl, r) ==
    IF tbl = "BNA_FRED_METRICS"
    THEN [r EXCEPT !.date = Null, !.series_id = Null]
    ELSE [r EXCEPT !.zpid = Null]

WithoutKey(tbl, df) ==
    [cols |-> df.cols \ KeyCols(tbl),
     rows |-> [i \in 1..Len(df.rows) |-> WithoutKeyRow(tbl, df.rows[i])]]

\* What read_table_safely may give for a table: nothing (no table, or a table
\* without rows), what an earlier run wrote, or rows without the key columns.
PreviousFrames(tbl) ==
    {EmptyFrame}
    \cup {[cols |-> f.cols, rows |-> <<>>] : f \in FreshFrames(tbl)}
    \cup {Serialize(tbl, f) : f \in FreshFrames(tbl)}
    \cup {WithoutKey(tbl, Serialize(tbl, f)) : f \in FreshFrames(tbl)}

InitReconcileIdle ==
    /\ rc_table = "BNA_FORSALE"
    /\ previous_df = EmptyFrame
    /\ incoming_df = EmptyFrame
    /\ merged_df = EmptyFrame
    /\ written_df = EmptyFrame
    /\ again_df = EmptyFrame
    /\ rc_pc = "idle"

InitReconcile ==
    /\ rc_table \in Tables
    /\ previous_df \in PreviousFrames(rc_table)
    /\ incoming_df \in FreshFrames(rc_table)
    /\ merged_df = EmptyFrame
    /\ written_df = EmptyFrame
    /\ again_df = EmptyFrame
    /\ rc_pc = "start"

\* The merge and the write of one update: previous_df and incoming_df give
\* merged_df, which is written as written_df.
ReconcileOnce ==
    /\ rc_pc = "start"
    /\ merged_df' = Reconcile(rc_table, previous_df, incoming_df)
    /\ written_df' = Serialize(rc_table, Reconcile(rc_table, previous_df, incoming_df))
    /\ rc_pc' = "once"
    /\ UNCHANGED <<rc_table, previous_df, incoming_df, again_df>>
    /\ UNCHANGED <<retryVars, pageVars, metricVars, gwVars, orchVars, etlVars, valVars, normVars>>

\* The next update reads written_df back and the fetch gives the same batch.
ReconcileAgain ==
    /\ rc_pc = "once"
    /\ again_df' = Serialize(rc_table, Reconcile(rc_table, written_df, incoming_df))
    /\ rc_pc' = "twice"
    /\ UNCHANGED <<rc_table, previous_df, incoming_df, merged_df, written_df>>
    /\ UNCHANGED <<retryVars, pageVars, metricVars, gwVars, orchVars, etlVars, valVars, normVars>>

NextReconcile ==
    \/ ReconcileOnce
    \/ ReconcileAgain

\* The keys a frame exposes: none when it lacks a key column.
KeysOf(tbl, df) ==
    IF KeyCols(tbl) \subseteq df.cols
    THEN {KeyOf(tbl, df.rows[i]) : i \in 1..Len(df.rows)}
    ELSE {}

RowsWithKey(tbl, df, k) == {i \in 1..Len(df.rows) : KeyOf(tbl, df.rows[i]) = k}

Max(S) == CHOOSE x \in S : \A y \in S : y <= x

\* C3: for every unique key that occurs both in the previously persisted set and
\* in the fresh batch, the Reconciler's output holds exactly one record with
\* that key, and it is the fresh batch's (last) record of that key.
C3_FreshWinsOnCollision ==
    rc_pc \in {"once", "twice"} =>
        \A k \in KeysOf(rc_table, previous_df) \cap KeysOf(rc_table, incoming_df) :
            /\ Cardinality(RowsWithKey(rc_table, merged_df, k)) = 1
            /\ \A i \in RowsWithKey(rc_table, merged_df, k) :
                  merged_df.rows[i] = incoming_df.rows[Max(RowsWithKey(rc_table, incoming_df, k))]

C3_Witness ==
    /\ rc_pc = "once"
    /\ rc_table = "BNA_FORSALE"
    /\ previous_df.rows = <<Prop(1, 300000, NoUnits)>>
    /\ "zpid" \in previous_df.cols
    /\ incoming_df.rows = <<Prop(1, 310000, NoUnits)>>
    /\ merged_df.rows = <<Prop(1, 310000, NoUnits)>>

\* C4: reconciling the same fresh batch again against the output of the first
\* reconciliation gives that output again.
C4_Idempotent ==
    rc_pc = "twice" => again_df = written_df

\* C5: when the previously persisted set is empty or does not expose the key
\* columns, the Reconciler's output is the fresh batch as it is.
C5_FreshAsIs ==
    (rc_pc \in {"once", "twice"}
        /\ (IsEmpty(previous_df) \/ ~(KeyCols(rc_table) \subseteq previous_df.cols)))
    => merged_df = incoming_df

(***************************************************************************)
(*   The Persistence Gateway: get_db_connection, read_table_safely,        *)
(*   upsert_dataframe                                                      *)
(***************************************************************************)

\* A table name as the caller writes it: its letters and how they are cased.
\* `.lower()` keeps the letters and makes the casing lower.
TableName(base, casing) == [base |-> base, casing |-> casing]
Lower(name) == [name EXCEPT !.casing = "lower"]

VALID_TABLE_NAMES ==
    {TableName(b, "lower") : b \in {"bna_forsale", "bna_rentals", "bna_fred_metrics"}}

\* The names a caller may pass.
TableNames ==
    {TableName(b, c) :
        b \in {"bna_forsale", "bna_rentals", "bna_fred_metrics", "nonexistent_table", "users; drop"},
        c \in {"lower", "upper"}}

\* `if table_name_lower not in VALID_TABLE_NAMES: raise ValueError`
InvalidName(name) == Lower(name) \notin VALID_TABLE_NAMES

NoOutcome == [kind |-> "none", error |-> "none"]
Returned == [kind |-> "returned", error |-> "none"]
Raised(e) == [kind |-> "raised", error |-> e]

\* The calls: a block under get_db_connection ("scope"), read_table_safely
\* with or without a connection, upsert_dataframe with or without rows.
GatewayCalls ==
    [op : {"scope", "read", "upsert"}, table_name : TableNames,
     df_empty : BOOLEAN, conn_given : BOOLEAN, configured : BOOLEAN]

InitGatewayIdle ==
    /\ gw_call = [op |-> "none", table_name |-> TableName("bna_forsale", "lower"),
                  df_empty |-> FALSE, conn_given |-> FALSE, configured |-> FALSE]
    /\ gw_events = <<>>
    /\ gw_error = "none"
    /\ gw_scope = "none"
    /\ gw_out = NoOutcome
    /\ gw_pc = "idle"

InitGateway ==
    /\ gw_call \in GatewayCalls
    /\ gw_events = <<>>
    /\ gw_error = "none"
    /\ gw_scope = "none"
    /\ gw_out = NoOutcome
    /\ gw_pc = "call"

\* The first statements of read_table_safely and of upsert_dataframe, up to the
\* first use of the database.  upsert_dataframe returns 0 for a frame without
\* rows before it looks at the name.
EnterCall ==
    /\ gw_pc = "call"
    /\ IF gw_call.op = "upsert" /\ gw_call.df_empty
       THEN gw_out' = Returned /\ gw_pc' = "done"
       ELSE IF gw_call.op \in {"read", "upsert"} /\ InvalidName(gw_call.table_name)
       THEN gw_out' = Raised("invalid_table_name") /\ gw_pc' = "done"
       ELSE /\ gw_out' = gw_out
            /\ gw_pc' = IF gw_call.op = "upsert" THEN "client"
                        ELSE IF gw_call.op = "read" /\ gw_call.conn_given THEN "query"
                        ELSE "connect"
    /\ UNCHANGED <<gw_call, gw_events, gw_error, gw_scope>>
    /\ UNCHANGED <<retryVars, pageVars, metricVars, rcVars, orchVars, etlVars, valVars, normVars>>

\* What the caller of the scope makes of an error that left it:
\* read_table_safely returns the empty frame when the table does not exist.
AfterScope(call, e) ==
    IF call.op = "read" /\ e = "does_not_exist" THEN Returned ELSE Raised(e)

\* get_db_connection up to the yield: without the URL or the key ValueError is
\* raised, and a connection that cannot be made raises; in both cases there is
\* no connection to roll back or to close.
Connect ==
    /\ gw_pc = "connect"
    /\ \E connected \in BOOLEAN :
          IF ~gw_call.configured
          THEN /\ gw_scope' = "not_configured"
               /\ gw_out' = Raised("not_configured")
               /\ gw_pc' = "done"
               /\ UNCHANGED gw_events
          ELSE IF ~connected
          THEN /\ gw_scope' = "connect_error"
               /\ gw_out' = AfterScope(gw_call, "connect_error")
               /\ gw_pc' = "done"
               /\ UNCHANGED gw_events
          ELSE /\ gw_events' = Append(gw_events, "connect")
               /\ gw_pc' = "body"
               /\ UNCHANGED <<gw_scope, gw_out>>
    /\ UNCHANGED <<gw_call, gw_error>>
    /\ UNCHANGED <<retryVars, pageVars, metricVars, rcVars, orchVars, etlVars, valVars, normVars>>

\* The body of the `with`: the caller's statements, or the SELECT of
\* read_table_safely.
Body ==
    /\ gw_pc = "body"
    /\ \E e \in {"none", "does_not_exist", "database_error"} :
          /\ gw_events' = Append(gw_events, IF gw_call.op = "read" THEN "query" ELSE "body")
          /\ gw_error' = e
          /\ gw_pc' = IF e = "none" THEN "commit" ELSE "rollback"
    /\ UNCHANGED <<gw_call, gw_scope, gw_out>>
    /\ UNCHANGED <<retryVars, pageVars, metricVars, rcVars, orchVars, etlVars, valVars, normVars>>

\* `conn.commit()` after the yield; a commit that raises is handled as any
\* error of the body.
Commit ==
    /\ gw_pc = "commit"
    /\ \E committed \in BOOLEAN :
          IF committed
          THEN /\ gw_events' = Append(gw_events, "commit")
               /\ gw_pc' = "close"
               /\ UNCHANGED gw_error
          ELSE /\ gw_events' = Append(gw_events, "commit_failed")
               /\ gw_error' = "commit_error"
               /\ gw_pc' = "rollback"
    /\ UNCHANGED <<gw_call, gw_scope, gw_out>>
    /\ UNCHANGED <<retryVars, pageVars, metricVars, rcVars, orchVars, etlVars, valVars, normVars>>

\* `except Exception: conn.rollback(); raise`
Rollback ==
    /\ gw_pc = "rollback"
    /\ gw_events' = Append(gw_events, "rollback")
    /\ gw_pc' = "close"
    /\ UNCHANGED <<gw_call, gw_error, gw_scope, gw_out>>
    /\ UNCHANGED <<retryVars, pageVars, metricVars, rcVars, orchVars, etlVars, valVars, normVars>>

\* `finally: conn.close()`, whatever happened.
ReleasesOnSuccess(e) == e = "none"
Releases(e) == TRUE

\* The end of the scope: the connection is closed and the caller goes on, or
\* gets the error.
Close ==
    /\ gw_pc = "close"
    /\ gw_events' = IF Releases(gw_error) THEN Append(gw_events, "close") ELSE gw_events
    /\ gw_scope' = IF gw_error = "none" THEN "committed" ELSE gw_error
    /\ gw_out' = IF gw_error = "none" THEN Returned ELSE AfterScope(gw_call, gw_error)
    /\ gw_pc' = "done"
    /\ UNCHANGED <<gw_call, gw_error>>
    /\ UNCHANGED <<retryVars, pageVars, metricVars, rcVars, orchVars, etlVars, valVars, normVars>>

\* read_table_safely on the connection it was given.
Query ==
    /\ gw_pc = "query"
    /\ \E e \in {"none", "does_not_exist", "database_error"} :
          /\ gw_events' = Append(gw_events, "query")
          /\ gw_out' = IF e = "none" THEN Returned ELSE AfterScope(gw_call, e)
    /\ gw_pc' = "done"
    /\ UNCHANGED <<gw_call, gw_error, gw_scope>>
    /\ UNCHANGED <<retryVars, pageVars, metricVars, rcVars, orchVars, etlVars, valVars, normVars>>

\* upsert_dataframe: get_supabase_client, then the upsert request.
Upsert ==
    /\ gw_pc = "client"
    /\ \E e \in {"none", "api_error"} :
          IF ~gw_call.configured
          THEN /\ gw_out' = Raised("not_configured")
               /\ UNCHANGED gw_events
          ELSE /\ gw_events' = gw_events \o <<"client", "upsert">>
               /\ gw_out' = IF e = "none" THEN Returned ELSE Raised(e)
    /\ gw_pc' = "done"
    /\ UNCHANGED <<gw_call, gw_error, gw_scope>>
    /\ UNCHANGED <<retryVars, pageVars, metricVars, rcVars, orchVars, etlVars, valVars, normVars>>

NextGateway ==
    \/ EnterCall
    \/ Connect
    \/ Body
    \/ Commit
    \/ Rollback
    \/ Close
    \/ Query
    \/ Upsert

\* C15: for every name outside the whitelist (after lower-casing) and every
\* record set, read_table_safely and upsert_dataframe reject the call with an
\* error, before any query is built and any connection or client is obtained.
C15_RejectsUnknownTable ==
    (gw_call.op \in {"read", "upsert"} /\ InvalidName(gw_call.table_name)) =>
        /\ gw_events = <<>>
        /\ gw_pc = "done" => gw_out = Raised("invalid_table_name")

CountOf(events, e) == Cardinality({i \in 1..Len(events) : events[i] = e})

Pipelines == <<"for_sale", "rentals", "fred_metrics">>

\* results = {} and the count of a table not yet updated.
NoCount == -1
NoResults == [for_sale |-> NoCount, rentals |-> NoCount, fred_metrics |-> NoCount]

\* The order of the three assignments to results.
NextPipelineSwapped(p) ==
    IF p = "for_sale" THEN "fred_metrics"
    ELSE IF p = "fred_metrics" THEN "rentals"
    ELSE "completed"

NextPipeline(p) ==
    IF p = "for_sale" THEN "rentals"
    ELSE IF p = "rentals" THEN "fred_metrics"
    ELSE "completed"

\* validate_environment: RAPID_API_KEY and FRED_API_KEY must be set.
ValidatesNothing(e) == TRUE
ValidateEnvironment(e) == e.rapid_api_key /\ e.fred_api_key

\* The credential the fetch of a pipeline tests before its first request.
FetchKey(e, p) == IF p = "fred_metrics" THEN e.fred_api_key ELSE e.rapid_api_key

Event(ev, p, n) == [ev |-> ev, p |-> p, n |-> n, error |-> "none"]
ErrorEvent(ev, p, e) == [ev |-> ev, p |-> p, n |-> 0, error |-> e]

InitOrchestratorIdle ==
    /\ env = [rapid_api_key |-> FALSE, fred_api_key |-> FALSE, supabase |-> FALSE]
    /\ orch_pc = "idle"
    /\ orch_log = <<>>
    /\ orch_results = NoResults
    /\ orch_faults = {}

InitOrchestrator ==
    /\ env \in [rapid_api_key : BOOLEAN, fred_api_key : BOOLEAN, supabase : BOOLEAN]
    /\ orch_pc = "validating"
    /\ orch_log = <<>>
    /\ orch_results = NoResults
    /\ orch_faults = {}

\* `if not validate_environment(): raise SystemExit(1)`, then `results = {}`.
Validating ==
    /\ orch_pc = "validating"
    /\ orch_pc' = IF ValidateEnvironment(env) THEN "for_sale" ELSE "exited"
    /\ UNCHANGED <<env, orch_log, orch_results, orch_faults>>
    /\ UNCHANGED <<retryVars, pageVars, metricVars, rcVars, gwVars, etlVars, valVars, normVars>>

\* `except Exception as e: ... raise`: the run is over when a step raised.
AfterFailureGoesOn(p) == NextPipeline(p)
AfterFailure(p) == "failed"

\* The log after pipeline p raised e and run_full_refresh raised it again.
Aborted(log, p, e) == log \o <<ErrorEvent("raised", p, e), ErrorEvent("reraised", p, e)>>

\* One update_*_table of the run: the fetch gives n rows or raises; no rows,
\* the update is skipped; otherwise upsert_dataframe obtains the client, which
\* raises without the Supabase URL or key, and sends the rows.
RunPipeline(p, n, fetch_ok, upsert_ok) ==
    LET invoked == Append(orch_log, Event("invoke", p, 0))
        fetched == Append(invoked, Event("request", p, 0))
    IN  /\ orch_pc = p
        /\ UNCHANGED env
        /\ IF ~FetchKey(env, p)
           THEN /\ orch_log' = Aborted(invoked, p, "missing_key")
                /\ orch_pc' = AfterFailure(p)
                /\ UNCHANGED orch_results
           ELSE IF ~fetch_ok
           THEN /\ orch_log' = Aborted(fetched, p, "data_validation_error")
                /\ orch_pc' = AfterFailure(p)
                /\ UNCHANGED orch_results
           ELSE IF n = 0
           THEN /\ orch_log' = Append(fetched, Event("return", p, 0))
                /\ orch_results' = [orch_results EXCEPT ![p] = 0]
                /\ orch_pc' = NextPipeline(p)
           ELSE IF ~env.supabase
           THEN /\ orch_log' = Aborted(fetched, p, "not_configured")
                /\ orch_pc' = AfterFailure(p)
                /\ UNCHANGED orch_results
           ELSE IF ~upsert_ok
           THEN /\ orch_log' = Aborted(Append(fetched, Event("upsert", p, n)), p, "upsert_error")
                /\ orch_pc' = AfterFailure(p)
                /\ UNCHANGED orch_results
           ELSE /\ orch_log' = fetched \o <<Event("upsert", p, n), Event("return", p, n)>>
                /\ orch_results' = [orch_results EXCEPT ![p] = n]
                /\ orch_pc' = NextPipeline(p)

\* What ends the page loop of a listing fetch: the last page, or a page whose
\* request failed after its retries or whose body could not be decoded.
ListingFaults == {"none", "request_error", "decode_error"}

\* The three except clauses of the page loop end the loop; none raises.
PageErrorRaisesAlways(fault) == fault # "none"
PageErrorRaises(fault) == FALSE

\* A batch none of whose records has the identifier field has no zpid column.
Structural(props) == props # <<>> /\ \A i \in 1..Len(props) : props[i].zpid = Absent
RecordInvalid(r) == r.zpid \in {Absent, Null} \/ ~(r.price > 0 /\ r.price < PRICE_CEILING)

\* The faults of one listing fetch, by the classes of the error handling.
ListingFaultClasses(props, fault) ==
    (IF fault = "request_error" THEN {"transient_io"} ELSE {})
    \cup (IF fault = "decode_error" THEN {"malformed"} ELSE {})
    \cup (IF Structural(props) THEN {"structural"}
          ELSE IF \E i \in 1..Len(props) : RecordInvalid(props[i]) THEN {"record"}
          ELSE {})

\* The faults of one metrics fetch: a series that failed, an observation
\* without a value.
MetricFaultClasses(outs) ==
    (IF \E s \in 1..MaxSeries : ~outs[s].ok THEN {"per_series"} ELSE {})
    \cup (IF \E s \in 1..MaxSeries : outs[s].ok /\ outs[s].v = Null THEN {"record"} ELSE {})

\* The faults the run has met after pipeline p fetched f with the faults
\* classes and its upsert was to succeed or not.
FaultsAfter(p, f, fetch_ok, classes, upsert_ok) ==
    IF ~FetchKey(env, p) THEN orch_faults
    ELSE orch_faults \cup classes
         \cup (IF fetch_ok /\ ~IsEmpty(f.df) /\ env.supabase /\ ~upsert_ok
               THEN {"persistence"} ELSE {})

RunForSale ==
    /\ \E props \in RunSaleBatches, fault \in ListingFaults, upsert_ok \in BOOLEAN :
          LET f == FetchForSale(props)
              fetch_ok == ~f.raised /\ ~PageErrorRaises(fault)
          IN  /\ RunPipeline("for_sale", Len(f.df.rows), fetch_ok, upsert_ok)
              /\ orch_faults' = FaultsAfter("for_sale", f, fetch_ok,
                                            ListingFaultClasses(props, fault), upsert_ok)
    /\ UNCHANGED <<retryVars, pageVars, metricVars, rcVars, gwVars, etlVars, valVars, normVars>>

RunRentals ==
    /\ \E props \in RunRentalBatches, fault \in ListingFaults, upsert_ok \in BOOLEAN :
          LET f == FetchRentals(props)
              fetch_ok == ~f.raised /\ ~PageErrorRaises(fault)
          IN  /\ RunPipeline("rentals", Len(f.df.rows), fetch_ok, upsert_ok)
              /\ orch_faults' = FaultsAfter("rentals", f, fetch_ok,
                                            ListingFaultClasses(props, fault), upsert_ok)
    /\ UNCHANGED <<retryVars, pageVars, metricVars, rcVars, gwVars, etlVars, valVars, normVars>>

RunFredMetrics ==
    /\ \E outs \in [1..MaxSeries -> SeriesOutcomes], upsert_ok \in BOOLEAN :
          LET f == [raised |-> FALSE, df |-> FetchFred(outs)]
          IN  /\ RunPipeline("fred_metrics", Len(f.df.rows), TRUE, upsert_ok)
              /\ orch_faults' = FaultsAfter("fred_metrics", f, TRUE,
                                            MetricFaultClasses(outs), upsert_ok)
    /\ UNCHANGED <<retryVars, pageVars, metricVars, rcVars, gwVars, etlVars, valVars, normVars>>

NextOrchestrator ==
    \/ Validating
    \/ RunForSale
    \/ RunRentals
    \/ RunFredMetrics

IsRequest(e) == e.ev = "request"
IsInvoke(e) == e.ev = "invoke"
IsInvokeOrReturn(e) == e.ev \in {"invoke", "return"}

\* C17: when the credential validation fails the run ends with SystemExit from
\* Validating and never runs: no pipeline is invoked, no request is issued, no
\* table is written.
C17_ExitBeforeRunning ==
    /\ (orch_pc # "validating" /\ ~(env.rapid_api_key /\ env.fred_api_key)) =>
          (orch_pc = "exited" /\ orch_log = <<>> /\ orch_results = NoResults)
    /\ orch_pc = "exited" => ~(env.rapid_api_key /\ env.fred_api_key)

C17_Witness ==
    /\ orch_pc = "exited"
    /\ env.rapid_api_key
    /\ ~env.fred_api_key
    /\ orch_log = <<>>

\* C18: in every run in which a credential that a step of the run needs is
\* absent (the listing key, the metrics key, the store's URL and key), the run
\* fails in Validating and no listing or metrics request is issued.
C18_MissingCredentialStopsRun ==
    (orch_pc # "validating"
        /\ ~(env.rapid_api_key /\ env.fred_api_key /\ env.supabase)) =>
        (orch_pc = "exited" /\ SelectSeq(orch_log, IsRequest) = <<>>)

\* C19: in every run that completes, each pipeline was invoked once, in the
\* order for-sale, rentals, metrics, each after the one before it returned, and
\* the result holds the three counts the pipelines returned.
C19_FixedOrderAndCounts ==
    orch_pc = "completed" =>
        LET calls == SelectSeq(orch_log, IsInvokeOrReturn)
        IN  /\ Len(calls) = 6
            /\ \A k \in 1..3 :
                  /\ calls[2 * k - 1] = Event("invoke", Pipelines[k], 0)
                  /\ calls[2 * k].ev = "return"
                  /\ calls[2 * k].p = Pipelines[k]
                  /\ orch_results[Pipelines[k]] = calls[2 * k].n
            /\ DOMAIN orch_results = {"for_sale", "rentals", "fred_metrics"}

C19_Witness ==
    /\ orch_pc = "completed"
    /\ orch_results = [for_sale |-> 1, rentals |-> 0, fred_metrics |-> 3]

\* C21: when a pipeline step raises, the run is aborted: no later pipeline is
\* started, no result map is returned, and run_full_refresh raises the same
\* exception to its caller.
C21_FailureAbortsRun ==
    \A i \in 1..Len(orch_log) :
        orch_log[i].ev = "raised" =>
            /\ orch_pc = "failed"
            /\ Len(orch_log) = i + 1
            /\ orch_log[i + 1] = ErrorEvent("reraised", orch_log[i].p, orch_log[i].error)
            /\ orch_results[orch_log[i].p] = NoCount

C21_Witness ==
    /\ orch_pc = "failed"
    /\ orch_results = [for_sale |-> 1, rentals |-> NoCount, fred_metrics |-> NoCount]
    /\ orch_log[Len(orch_log)] = ErrorEvent("reraised", "rentals", "upsert_error")

AbsorbedClasses == {"transient_io", "malformed", "per_series", "record"}

OnlyAbsorbedFaults ==
    /\ env.rapid_api_key /\ env.fred_api_key /\ env.supabase
    /\ orch_faults \subseteq AbsorbedClasses

\* C22: a run whose only faults are transient I/O failures, undecodable
\* responses, failed series and invalid records raises nothing to
\* run_full_refresh, and once its three pipelines have been invoked it is
\* completed with a count for each of the three tables.
C22_AbsorbedFaultsComplete ==
    OnlyAbsorbedFaults =>
        /\ orch_pc \notin {"failed", "exited"}
        /\ \A i \in 1..Len(orch_log) : orch_log[i].ev \notin {"raised", "reraised"}
        /\ Len(SelectSeq(orch_log, IsInvoke)) = 3 =>
              /\ orch_pc = "completed"
              /\ \A p \in DOMAIN orch_results : orch_results[p] >= 0

C22_Witness ==
    /\ OnlyAbsorbedFaults
    /\ orch_faults = AbsorbedClasses
    /\ orch_pc = "completed"
    /\ orch_results = [for_sale |-> 0, rentals |-> 2, fred_metrics |-> 1]

(***************************************************************************)
(*              ETLService.run_full_refresh and the database               *)
(***************************************************************************)

\* Bound on the runs of the service.
MaxRuns == 2

NoTable == [exists |-> FALSE, cols |-> {}, rows |-> <<>>]
TableOf(df) == [exists |-> TRUE, cols |-> df.cols, rows |-> df.rows]

\* What the SELECT of read_table_safely may meet besides a missing table: an
\* sqlite3.OperationalError of another cause, such as "database is locked".
ReadFaults == {"none", "operational_error"}

\* read_table_safely: the rows of the table; the empty frame on any
\* sqlite3.OperationalError, the one of a missing table or another.
ReadTableSafely(t, fault) ==
    IF t.exists /\ fault = "none" THEN [cols |-> t.cols, rows |-> t.rows] ELSE EmptyFrame

NoStep ==
    [table |-> "none", outcome |-> "none", before |-> NoTable, fetched |-> 0, read |-> "none"]

\* What the three fetches of a run may give.
SaleFetches == {FetchForSale(b) : b \in RunSaleBatches}
RentalFetches == {FetchRentals(b) : b \in RunRentalBatches}
MetricFetches ==
    {[raised |-> FALSE, df |-> FetchFred(o)] : o \in [1..MaxSeries -> SeriesOutcomes]}

\* How the block under get_db_connection may end.  df.to_sql(if_exists=
\* "replace") drops the table, creates it again and inserts the rows.  The
\* sqlite3 connection opens its transaction before the INSERT only: DROP TABLE
\* and CREATE TABLE are committed as they run, so the rollback of
\* get_db_connection undoes the INSERT alone.
\*   "ok"           all three statements ran, commit
\*   "read_error"   read_table_safely raised
\*   "drop_error"   DROP TABLE raised
\*   "create_error" CREATE TABLE raised, after the drop
\*   "insert_error" INSERT raised, after the drop and the create
WriteOutcomes == {"ok", "read_error", "drop_error", "create_error", "insert_error"}

\* The table after the block ended as out, merged being the frame to write.
TableAfter(before, merged, out) ==
    IF out = "ok" THEN TableOf(merged)
    ELSE IF out = "create_error" THEN NoTable
    ELSE IF out = "insert_error" THEN [exists |-> TRUE, cols |-> merged.cols, rows |-> <<>>]
    ELSE before

\* `if df.empty: ... return 0`: the update is skipped.
SkipsNothing(df) == FALSE
SkipsUpdate(df) == IsEmpty(df)

\* Each update_*_table commits under its own get_db_connection: the end of one
\* block, committed or rolled back, reaches the table of that block alone.
StoreAfterRollsBackRun(st, tbl, after, out) ==
    IF out = "ok" THEN [st EXCEPT ![tbl] = after]
    ELSE [u \in Tables |-> IF u = tbl THEN after ELSE NoTable]
StoreAfter(st, tbl, after, out) == [st EXCEPT ![tbl] = after]

\* One update_*_table: the fetch gave fetched, the SELECT met the fault rd, the
\* block under get_db_connection ends as out, the run goes on at next_pc.
UpdateTable(tbl, key, fetched, rd, out, next_pc) ==
    LET existing_df == ReadTableSafely(store[tbl], rd)
        merged == Reconcile(tbl, existing_df, fetched.df)
    IN  IF fetched.raised
        THEN /\ etl_pc' = "failed"
             /\ last_step' = [table |-> tbl, outcome |-> "fetch_error", before |-> store[tbl],
                              fetched |-> 0, read |-> "none"]
             /\ UNCHANGED <<store, results>>
        ELSE IF SkipsUpdate(fetched.df)
        THEN /\ etl_pc' = next_pc
             /\ results' = [results EXCEPT ![key] = 0]
             /\ last_step' = [table |-> tbl, outcome |-> "skipped", before |-> store[tbl],
                              fetched |-> 0, read |-> "none"]
             /\ UNCHANGED store
        ELSE /\ out = "read_error" => rd = "none"
             /\ store' = StoreAfter(store, tbl,
                                    TableAfter(store[tbl], Serialize(tbl, merged), out), out)
             /\ last_step' = [table |-> tbl, outcome |-> out, before |-> store[tbl],
                              fetched |-> Len(fetched.df.rows), read |-> rd]
             /\ IF out = "ok"
                THEN /\ etl_pc' = next_pc
                     /\ results' = [results EXCEPT ![key] = Len(merged.rows)]
                ELSE /\ etl_pc' = "failed"
                     /\ UNCHANGED results

InitEtlIdle ==
    /\ store = [t \in Tables |-> NoTable]
    /\ etl_pc = "idle"
    /\ results = NoResults
    /\ runs = 0
    /\ last_step = NoStep

\* run_full_refresh up to the first update: validate_environment, results = {}.
StartRun ==
    /\ etl_pc \in {"idle", "completed", "failed", "exited"}
    /\ runs < MaxRuns
    /\ runs' = runs + 1
    /\ results' = NoResults
    /\ last_step' = NoStep
    /\ \E env_ok \in BOOLEAN : etl_pc' = IF env_ok THEN "for_sale" ELSE "exited"
    /\ UNCHANGED store
    /\ UNCHANGED <<retryVars, pageVars, metricVars, rcVars, gwVars, orchVars, valVars, normVars>>

UpdateSales ==
    /\ etl_pc = "for_sale"
    /\ \E fetched \in SaleFetches, rd \in ReadFaults, out \in WriteOutcomes :
          UpdateTable("BNA_FORSALE", "for_sale", fetched, rd, out, "rentals")
    /\ UNCHANGED runs
    /\ UNCHANGED <<retryVars, pageVars, metricVars, rcVars, gwVars, orchVars, valVars, normVars>>

UpdateRentals ==
    /\ etl_pc = "rentals"
    /\ \E fetched \in RentalFetches, rd \in ReadFaults, out \in WriteOutcomes :
          UpdateTable("BNA_RENTALS", "rentals", fetched, rd, out, "fred_metrics")
    /\ UNCHANGED runs
    /\ UNCHANGED <<retryVars, pageVars, metricVars, rcVars, gwVars, orchVars, valVars, normVars>>

UpdateMetrics ==
    /\ etl_pc = "fred_metrics"
    /\ \E fetched \in MetricFetches, rd \in ReadFaults, out \in WriteOutcomes :
          UpdateTable("BNA_FRED_METRICS", "fred_metrics", fetched, rd, out, "completed")
    /\ UNCHANGED runs
    /\ UNCHANGED <<retryVars, pageVars, metricVars, rcVars, gwVars, orchVars, valVars, normVars>>

NextEtl ==
    \/ StartRun
    \/ UpdateSales
    \/ UpdateRentals
    \/ UpdateMetrics

UniqueKeys(tbl, rows) ==
    \A i, j \in 1..Len(rows) : KeyOf(tbl, rows[i]) = KeyOf(tbl, rows[j]) => i = j

\* C1: after every reconciliation cycle that completes, in any sequence of runs
\* from an empty store, no two rows of a persisted table share the table's
\* unique key.
C1_UniqueKeysPersisted ==
    \A t \in Tables :
        (last_step.table = t /\ last_step.outcome = "ok") => UniqueKeys(t, store[t].rows)

\* C2: when the write of a table fails, the table after the raise is the table
\* before the run's update of it: never partially written, never emptied.
C2_AllOrNothing ==
    last_step.outcome \in (WriteOutcomes \ {"ok"})
        => store[last_step.table].rows = last_step.before.rows

KeyOfTable(tbl) ==
    IF tbl = "BNA_FORSALE" THEN "for_sale"
    ELSE IF tbl = "BNA_RENTALS" THEN "rentals"
    ELSE "fred_metrics"

\* C20: a pipeline whose fetch gives no records is skipped: its count is 0, its
\* table is as it was, nothing is raised and the run goes on to the next
\* pipeline.
C20_EmptyFetchSkipped ==
    (last_step.table \in Tables /\ last_step.outcome # "fetch_error" /\ last_step.fetched = 0) =>
        /\ store[last_step.table] = last_step.before
        /\ results[KeyOfTable(last_step.table)] = 0
        /\ etl_pc \in {"rentals", "fred_metrics", "completed"}
        /\ etl_pc # "failed"

C20_Witness ==
    /\ etl_pc = "completed"
    /\ last_step.outcome = "skipped"
    /\ results = [for_sale |-> 1, rentals |-> 1, fred_metrics |-> 0]
    /\ store["BNA_FRED_METRICS"].rows # <<>>

\* C29: reconciliation never deletes a row because the fresh batch lacks it:
\* over an update that completes, written or skipped, the set of unique keys
\* of the table never shrinks.
C29_KeysNeverShrink ==
    (last_step.table \in Tables /\ last_step.outcome \in {"ok", "skipped"}) =>
        KeysOf(last_step.table, last_step.before) \subseteq
            KeysOf(last_step.table, store[last_step.table])

TableOfKey(p) ==
    IF p = "for_sale" THEN "BNA_FORSALE"
    ELSE IF p = "rentals" THEN "BNA_RENTALS"
    ELSE "BNA_FRED_METRICS"

\* C30: the store is atomic per table, not per run: an update, failing or not,
\* changes no table but its own, so when the rentals or the metrics update
\* fails the tables updated before it keep what they committed in this run and
\* the tables not yet updated keep what they held before the run.
C30_AtomicPerTable ==
    [][(etl_pc \in {"for_sale", "rentals", "fred_metrics"}) =>
          (\A u \in Tables \ {TableOfKey(etl_pc)} : store'[u] = store[u])]_vars

C30_Witness ==
    /\ etl_pc = "failed"
    /\ runs = 1
    /\ last_step.table = "BNA_RENTALS"
    /\ last_step.outcome = "insert_error"
    /\ results["for_sale"] = 1
    /\ store["BNA_FORSALE"].rows # <<>>
    /\ store["BNA_FRED_METRICS"] = NoTable

(***************************************************************************)
(*                       retry_with_backoff                                *)
(***************************************************************************)

\* Bounds on the decorator arguments and on the values func returns.
MaxRetriesBound == 3
MaxValue == 2

BaseDelays == {1, 2}
MaxDelays == {1, 5, 60}
ExponentialBases == {1, 2, 3}

NoOut == [kind |-> "none", n |-> 0]

CallEvent(kind, n) == [ev |-> "call", kind |-> kind, n |-> n]
SleepEvent(d) == [ev |-> "sleep", kind |-> "none", n |-> d]

\* The positions of the calls of func in the trace, and their number.
CallsAt == {i \in 1..Len(trace) : trace[i].ev = "call"}
NumCalls == Cardinality(CallsAt)
NumFailures == Cardinality({i \in CallsAt : trace[i].kind = "retryable"})

\* `except retry_on as e`: only errors whose type is in retry_on are caught.
IsRetryableAll(kind) == kind \in {"retryable", "other"}
IsRetryable(kind) == kind = "retryable"

\* `if attempt == max_retries`: the last attempt re-raises.
ExhaustedEarly(a) == a + 1 >= max_retries
ExhaustedNever(a) == a > max_retries
Exhausted(a) == a = max_retries

\* `delay = min(base_delay * (exponential_base**attempt), max_delay)`
DelayUncapped(a) == base_delay * Pow(exponential_base, a)
Delay(a) == Min(base_delay * Pow(exponential_base, a), max_delay)

InitRetryIdle ==
    /\ max_retries = 0
    /\ base_delay = 0
    /\ max_delay = 0
    /\ exponential_base = 0
    /\ attempt = 0
    /\ trace = <<>>
    /\ retry_pc = "idle"
    /\ retry_out = NoOut

\* The decorated function is called: the wrapper enters its loop.
InitRetry ==
    /\ max_retries \in 0..MaxRetriesBound
    /\ base_delay \in BaseDelays
    /\ max_delay \in MaxDelays
    /\ exponential_base \in ExponentialBases
    /\ attempt = 0
    /\ trace = <<>>
    /\ retry_pc = "call"
    /\ retry_out = NoOut

\* One iteration of `for attempt in range(max_retries + 1)` in which func
\* returns v: `return func(*args, **kwargs)`.
FuncReturns ==
    /\ retry_pc = "call"
    /\ attempt \in 0..max_retries
    /\ \E v \in 1..MaxValue :
        /\ trace' = Append(trace, CallEvent("ok", v))
        /\ retry_out' = [kind |-> "value", n |-> v]
    /\ retry_pc' = "returned"
    /\ UNCHANGED <<max_retries, base_delay, max_delay, exponential_base, attempt>>
    /\ UNCHANGED <<pageVars, metricVars, rcVars, gwVars, orchVars, etlVars, valVars, normVars>>

\* One iteration in which func raises an error of kind k; the error is named by
\* the number of the call that raised it.  An error that retry_on does not
\* catch leaves the wrapper at once; a caught one is re-raised on the last
\* attempt and is otherwise followed by the sleep and the next iteration.  When
\* the range is used up the loop ends and the wrapper returns None.
Raise(k) ==
    /\ attempt \in 0..max_retries
    /\ LET e == NumCalls + 1
           called == Append(trace, CallEvent(k, e))
       IN  IF ~IsRetryable(k) \/ Exhausted(attempt)
           THEN /\ trace' = called
                /\ retry_out' = [kind |-> "error", n |-> e]
                /\ retry_pc' = "raised"
                /\ attempt' = attempt
           ELSE /\ trace' = Append(called, SleepEvent(Delay(attempt)))
                /\ attempt' = attempt + 1
                /\ IF attempt + 1 > max_retries
                   THEN /\ retry_pc' = "returned"
                        /\ retry_out' = [kind |-> "value", n |-> 0]
                   ELSE /\ retry_pc' = "call"
                        /\ retry_out' = retry_out
    /\ UNCHANGED <<max_retries, base_delay, max_delay, exponential_base>>
    /\ UNCHANGED <<pageVars, metricVars, rcVars, gwVars, orchVars, etlVars, valVars, normVars>>

\* func raises an error whose type is in retry_on.
FuncRaisesRetryable ==
    /\ retry_pc = "call"
    /\ Raise("retryable")

\* func raises an error whose type is not in retry_on.
FuncRaisesOther ==
    /\ retry_pc = "call"
    /\ Raise("other")

NextRetry ==
    \/ FuncReturns
    \/ FuncRaisesRetryable
    \/ FuncRaisesOther

\* The calls of func, in order, and the sleeps, in order.
RECURSIVE EventsOf(_, _)
EventsOf(t, ev) ==
    IF t = <<>> THEN <<>>
    ELSE IF t[1].ev = ev THEN <<t[1]>> \o EventsOf(Tail(t), ev)
         ELSE EventsOf(Tail(t), ev)

Calls == EventsOf(trace, "call")
Sleeps == EventsOf(trace, "sleep")
AllRetryable == \A i \in 1..Len(Calls) : Calls[i].kind = "retryable"
RetryDone == retry_pc \in {"returned", "raised"}

\* C6: when func raises a retryable error on its first k calls, k <= max_retries,
\* and then returns a value, the wrapper has called it exactly k+1 times and
\* returns that value unchanged; it never gives up while at most max_retries
\* retryable failures have been seen.
C6_SucceedsAfterKFailures ==
    /\ retry_pc = "returned" =>
          /\ Len(Calls) = NumFailures + 1
          /\ NumFailures <= max_retries
          /\ Calls[Len(Calls)].kind = "ok"
          /\ retry_out = [kind |-> "value", n |-> Calls[Len(Calls)].n]
    /\ (retry_pc = "raised" /\ AllRetryable) => NumFailures > max_retries
    /\ (Len(Calls) > 0 /\ Calls[Len(Calls)].kind = "ok") => retry_pc = "returned"

C6_Witness ==
    /\ retry_pc = "returned"
    /\ max_retries = 3
    /\ NumFailures = 3
    /\ Len(Calls) = 4
    /\ retry_out = [kind |-> "value", n |-> 2]

\* C7: when func raises a retryable error on every call, the wrapper calls it
\* exactly max_retries+1 times and then raises the error of the last call; it
\* never returns a value.
C7_ExhaustionRaisesLast ==
    AllRetryable =>
        /\ Len(Calls) <= max_retries + 1
        /\ retry_pc # "returned"
        /\ Len(Calls) = max_retries + 1 =>
              /\ retry_pc = "raised"
              /\ retry_out = [kind |-> "error", n |-> max_retries + 1]
        /\ retry_pc = "raised" => Len(Calls) = max_retries + 1

C7_Witness ==
    /\ AllRetryable
    /\ max_retries = 2
    /\ Len(Calls) = 3
    /\ retry_pc = "raised"
    /\ retry_out = [kind |-> "error", n |-> 3]

C9_BackoffSchedule ==
    /\ \A j \in 1..Len(Sleeps) :
          /\ Sleeps[j].n = Min(base_delay * Pow(exponential_base, j - 1), max_delay)
          /\ Sleeps[j].n <= max_delay
          /\ j > 1 => Sleeps[j - 1].n <= Sleeps[j].n
    /\ \A i \in 1..Len(trace) :
          /\ (trace[i].ev = "call" /\ i < Len(trace)) =>
                /\ trace[i + 1].ev = "sleep"
                /\ i + 2 <= Len(trace) => trace[i + 2].ev = "call"
          /\ trace[i].ev = "sleep" => (i > 1 /\ trace[i - 1].ev = "call")
    /\ RetryDone => trace[Len(trace)].ev = "call"
    /\ retry_pc = "call" => (trace = <<>> \/ trace[Len(trace)].ev = "sleep")

C9_Witness ==
    /\ base_delay = 2
    /\ exponential_base = 3
    /\ max_delay = 5
    /\ Len(Sleeps) = 3
    /\ Sleeps[1].n = 2
    /\ Sleeps[2].n = 5
    /\ Sleeps[3].n = 5

(***************************************************************************)
(*                          Specifications                                 *)
(***************************************************************************)

\* retry_with_backoff alone: one call of a decorated function.
InitSpecRetry ==
    /\ InitRetry
    /\ InitPagesIdle
    /\ InitReconcileIdle
    /\ InitEtlIdle
    /\ InitMetricsIdle
    /\ InitGatewayIdle
    /\ InitOrchestratorIdle
    /\ InitValidatorIdle
    /\ InitNormalizerIdle

SpecRetry == InitSpecRetry /\ [][NextRetry]_vars

\* fetch_zillow_listings alone: one call of it.
InitSpecPages ==
    /\ InitPages
    /\ InitRetryIdle
    /\ InitReconcileIdle
    /\ InitEtlIdle
    /\ InitMetricsIdle
    /\ InitGatewayIdle
    /\ InitOrchestratorIdle
    /\ InitValidatorIdle
    /\ InitNormalizerIdle

SpecPages == InitSpecPages /\ [][NextPages]_vars

\* The Reconciler alone: one merge, and a second one with the same batch.
InitSpecReconcile ==
    /\ InitReconcile
    /\ InitRetryIdle
    /\ InitPagesIdle
    /\ InitEtlIdle
    /\ InitMetricsIdle
    /\ InitGatewayIdle
    /\ InitOrchestratorIdle
    /\ InitValidatorIdle
    /\ InitNormalizerIdle

SpecReconcile == InitSpecReconcile /\ [][NextReconcile]_vars

\* The runs of the ETL service over a database that starts empty.
InitSpec ==
    /\ InitEtlIdle
    /\ InitRetryIdle
    /\ InitPagesIdle
    /\ InitReconcileIdle
    /\ InitMetricsIdle
    /\ InitGatewayIdle
    /\ InitOrchestratorIdle
    /\ InitValidatorIdle
    /\ InitNormalizerIdle

Spec == InitSpec /\ [][NextEtl]_vars

\* One call of fetch_fred_metrics.
InitSpecMetrics ==
    /\ InitMetrics
    /\ InitRetryIdle
    /\ InitPagesIdle
    /\ InitReconcileIdle
    /\ InitEtlIdle
    /\ InitGatewayIdle
    /\ InitOrchestratorIdle
    /\ InitValidatorIdle
    /\ InitNormalizerIdle

SpecMetrics == InitSpecMetrics /\ [][NextMetrics]_vars

\* One call of the Persistence Gateway.
InitSpecGateway ==
    /\ InitGateway
    /\ InitRetryIdle
    /\ InitPagesIdle
    /\ InitMetricsIdle
    /\ InitReconcileIdle
    /\ InitEtlIdle
    /\ InitOrchestratorIdle
    /\ InitValidatorIdle
    /\ InitNormalizerIdle

SpecGateway == InitSpecGateway /\ [][NextGateway]_vars

\* One run of the Supabase service's run_full_refresh.
InitSpecOrchestrator ==
    /\ InitOrchestrator
    /\ InitRetryIdle
    /\ InitPagesIdle
    /\ InitMetricsIdle
    /\ InitReconcileIdle
    /\ InitGatewayIdle
    /\ InitEtlIdle
    /\ InitValidatorIdle
    /\ InitNormalizerIdle

SpecOrchestrator == InitSpecOrchestrator /\ [][NextOrchestrator]_vars


InitSpecValidator ==
    /\ InitValidator
    /\ InitRetryIdle
    /\ InitPagesIdle
    /\ InitReconcileIdle
    /\ InitEtlIdle
    /\ InitMetricsIdle
    /\ InitGatewayIdle
    /\ InitOrchestratorIdle
    /\ InitNormalizerIdle

SpecValidator == InitSpecValidator /\ [][NextValidator]_vars

InitSpecNormalizer ==
    /\ InitNormalizer
    /\ InitRetryIdle
    /\ InitPagesIdle
    /\ InitReconcileIdle
    /\ InitEtlIdle
    /\ InitMetricsIdle
    /\ InitGatewayIdle
    /\ InitOrchestratorIdle
    /\ InitValidatorIdle

SpecNormalizer == InitSpecNormalizer /\ [][NextNormalizer]_vars

=============================================================================
